---- MODULE Spec2Model ----
(***************************************************************************)
(* Model of the PDF word frequency analyzer: discovery of PDF files, the   *)
(* thread-pool ingestion (reader.py), tokenization, the chunked process-   *)
(* pool filter, aggregation and the frequency filter (processor.py,        *)
(* filters.py), and the command line guard around them (cli.py).           *)
(*                                                                         *)
(* A text is a sequence of one-character strings; a word is a non-empty    *)
(* sequence of word characters.                                            *)
(***************************************************************************)
EXTENDS Integers, Sequences, FiniteSets, TLC

\* ------------------------------------------------------------------ bounds

\* Largest number of directory entries of the input path.
MaxFiles == 2

\* Largest size of the thread pool a caller asks for.
MaxWorkersIO == 2

\* Largest size of the process pool a caller asks for or the system reports;
\* the pool of DefaultProcesses workers is reached with neither.
MaxWorkersCPU == 1

\* Largest frequency bound a caller passes as min_freq or max_freq.
MaxFreq == 2

\* ------------------------------------------------------------- characters

WordChars == {"a", "b", "A", "B", "1"}
SpaceChars == {" "}

\* str.lower() on one character.
LowerChar(c) == CASE c = "A" -> "a" [] c = "B" -> "b" [] OTHER -> c

\* str.lower() on a text.
LowerText(t) == [i \in 1..Len(t) |-> LowerChar(t[i])]

\* A variant that tests "not all_text" without strip().
IsEmptyText(t) == t = <<>>

\* str.strip() leaves nothing: every character is whitespace.
IsBlank(t) == \A i \in 1..Len(t) : t[i] \in SpaceChars

\* sep.join(parts) for a sequence of texts.
RECURSIVE Join(_, _)
Join(sep, parts) ==
    IF parts = <<>> THEN <<>>
    ELSE IF Len(parts) = 1 THEN parts[1]
    ELSE parts[1] \o sep \o Join(sep, Tail(parts))

\* re.findall(r"\b\w+\b", text): the maximal runs of word characters, scanned
\* from position i with the run cur collected so far.
RECURSIVE FindAllFrom(_, _, _)
FindAllFrom(t, i, cur) ==
    IF i > Len(t) THEN (IF cur = <<>> THEN <<>> ELSE <<cur>>)
    ELSE IF t[i] \in WordChars THEN FindAllFrom(t, i + 1, Append(cur, t[i]))
    ELSE (IF cur = <<>> THEN <<>> ELSE <<cur>>) \o FindAllFrom(t, i + 1, <<>>)

\* raw_words = re.findall(r"\b\w+\b", all_text.lower(), re.UNICODE)
Tokenize(t) == FindAllFrom(LowerText(t), 1, <<>>)

\* ------------------------------------------------------------ input files

\* One page of a document: extract_text() raises, or returns a text (the
\* empty text stands for "" and for None alike).
PageFails == [fail |-> TRUE, text |-> <<>>]
Page(t) == [fail |-> FALSE, text |-> t]

\* A document: PdfReader raises on it (corrupt), or it has pages.
DocCorrupt == [corrupt |-> TRUE, pages |-> <<>>]
DocBlank == [corrupt |-> FALSE, pages |-> <<PageFails>>]
DocA == [corrupt |-> FALSE, pages |-> <<Page(<<"A", "b", " ", "a", "b", " ", "a">>)>>]
DocB == [corrupt |-> FALSE,
         pages |-> <<Page(<<"a", "b", "b", ".">>), Page(<<>>),
                     Page(<<"b", "a", "B", " ", "1", "1", "1">>)>>]
DocDot == [corrupt |-> FALSE, pages |-> <<Page(<<".">>)>>]
Docs == {DocCorrupt, DocBlank, DocA, DocB, DocDot}

\* A directory entry: the case of its extension varies, and an entry that
\* is no PDF carries no document.
Entry(ext, doc) == [ext |-> ext, doc |-> doc]
Entries == {Entry("pdf", d) : d \in Docs \ {DocB}}
           \cup {Entry("PDF", DocB), Entry("txt", DocCorrupt)}

RECURSIVE SeqsUpTo(_, _)
SeqsUpTo(S, n) ==
    IF n = 0 THEN {<<>>}
    ELSE LET shorter == SeqsUpTo(S, n - 1)
         IN shorter \cup {Append(s, e) : s \in {x \in shorter : Len(x) = n - 1}, e \in S}

\* The input path: missing, one file, or a directory of entries.
InputPaths ==
    {[kind |-> "missing", entries |-> <<>>]}
    \cup {[kind |-> "file", entries |-> <<e>>] : e \in Entries}
    \cup {[kind |-> "dir", entries |-> es] : es \in SeqsUpTo(Entries, MaxFiles)}

\* entry.lower().endswith(".pdf")
LowerExt(ext) == IF ext = "PDF" THEN "pdf" ELSE ext
EndsWithPdf(e) == LowerExt(e.ext) = "pdf"

\* A variant that forgets the extension test.
FindPdfFilesAnyEntry(path) ==
    IF path.kind \in {"file", "dir"}
    THEN [raised |-> FALSE, paths |-> path.entries]
    ELSE [raised |-> TRUE, paths |-> <<>>]

\* find_pdf_files: the paths found, or a raised ValueError.
FindPdfFiles(path) ==
    IF path.kind = "file" /\ EndsWithPdf(path.entries[1])
    THEN [raised |-> FALSE, paths |-> path.entries]
    ELSE IF path.kind = "dir"
    THEN [raised |-> FALSE, paths |-> SelectSeq(path.entries, EndsWithPdf)]
    ELSE [raised |-> TRUE, paths |-> <<>>]

\* _read_single_pdf, lines 71-79: a failing or empty page counts as " ",
\* and the page texts are joined by " ".
PageText(p) == IF p.fail \/ p.text = <<>> THEN <<" ">> ELSE p.text
LocalText(doc) == Join(<<" ">>, [i \in 1..Len(doc.pages) |-> PageText(doc.pages[i])])

\* ------------------------------------------------------------------ state

\* An Optional value: None (of an integer, of a list), or Some(v).
None == [some |-> FALSE, v |-> 0]
NoneList == [some |-> FALSE, v |-> <<>>]
Some(x) == [some |-> TRUE, v |-> x]

\* A frequency map with no entries.
EmptyMap == [w \in {} |-> 0]

\* What calculate_word_frequency_and_filter has returned: nothing yet, or
\* the pair (total_valid_word_count, final_frequency).
NotReturned == [returned |-> FALSE, total |-> 0, freq |-> EmptyMap]
Returned(total, freq) == [returned |-> TRUE, total |-> total, freq |-> freq]

VARIABLES
    input_path,        \* the input path and what the file system holds there
    pc,                \* where the orchestrator stands
    visited,           \* the phases the orchestrator has entered, in order
    messages,          \* what the orchestrator and the guard have logged
    pdf_file_paths,    \* the discovered paths, in discovery order
    max_workers_io,    \* size of the thread pool
    submitted,         \* how many paths the submit loop has submitted
    tpc,               \* each ingestion task's position
    texts,             \* the shared list of extracted texts
    texts_lock,        \* the task holding texts_lock, 0 when free
    counter,           \* counter.value
    counter_lock,      \* the task holding counter_lock, 0 when free
    progress,          \* the completed values the progress messages report
    errors,            \* the tasks whose failure was logged
    all_text,          \* the corpus read_pdfs_in_parallel returned
    raw_words,         \* the tokens of the corpus
    excluded_words,    \* the caller's exclusion list
    excluded_set,      \* its lowercased set
    num_processes,     \* size of the process pool
    target_lang_codes, \* the caller's target languages
    word_chunks,       \* the chunks handed to the pool
    results,           \* each chunk's future: pending, done with words, failed
    completion,        \* the chunks in the order their workers finished
    filtered_words,    \* the chained results
    total_valid_word_count,
    word_frequency,    \* the aggregated frequency map
    freq_args,         \* the caller's min_freq, max_freq and exact_freqs
    result,            \* what the orchestrator returned
    cli                \* outcome of the command line's main under its guard

ingestVars == <<max_workers_io, submitted, tpc, texts, texts_lock, counter,
                counter_lock, progress, errors>>
filterVars == <<raw_words, excluded_words, excluded_set, num_processes,
                target_lang_codes, word_chunks, results, completion,
                filtered_words>>
finalVars == <<total_valid_word_count, word_frequency, freq_args>>
vars == <<input_path, pc, visited, messages, pdf_file_paths, ingestVars,
          all_text, filterVars, finalVars, result, cli>>

NoFreqArgs == [min_freq |-> None, max_freq |-> None, exact_freqs |-> NoneList]

Init ==
    /\ input_path \in InputPaths
    /\ pc = "Discover"
    /\ visited = <<"Discover">>
    /\ messages = <<>>
    /\ pdf_file_paths = <<>>
    /\ max_workers_io = 0
    /\ submitted = 0
    /\ tpc = <<>>
    /\ texts = <<>>
    /\ texts_lock = 0
    /\ counter = 0
    /\ counter_lock = 0
    /\ progress = <<>>
    /\ errors = {}
    /\ all_text = <<>>
    /\ raw_words = <<>>
    /\ excluded_words = <<>>
    /\ excluded_set = {}
    /\ num_processes = 0
    /\ target_lang_codes = NoneList
    /\ word_chunks = <<>>
    /\ results = <<>>
    /\ completion = <<>>
    /\ filtered_words = <<>>
    /\ total_valid_word_count = 0
    /\ word_frequency = EmptyMap
    /\ freq_args = NoFreqArgs
    /\ result = NotReturned
    /\ cli = "running"

\* The orchestrator returns (0, {}) after logging msg.
ReturnEmpty(msg) ==
    /\ messages' = Append(messages, msg)
    /\ result' = Returned(0, EmptyMap)
    /\ pc' = "Done"
    /\ visited' = Append(visited, "Done")

\* ---------------------------------------------------------------- Discover

\* Phase 0, processor.py lines 58-67.
Discover ==
    /\ pc = "Discover"
    /\ LET found == FindPdfFiles(input_path)
       IN IF found.raised
          THEN ReturnEmpty("Error: invalid input path") /\ UNCHANGED pdf_file_paths
          ELSE IF found.paths = <<>>
          THEN ReturnEmpty("Error: no PDF files") /\ UNCHANGED pdf_file_paths
          ELSE /\ pdf_file_paths' = found.paths
               /\ pc' = "Ingest"
               /\ visited' = Append(visited, "Ingest")
               /\ UNCHANGED <<messages, result>>
    /\ UNCHANGED <<input_path, ingestVars, all_text, filterVars, finalVars, cli>>

\* ------------------------------------------------------------------ Ingest

\* read_pdfs_in_parallel up to the creation of the pool, lines 127-142.
StartReading ==
    /\ pc = "Ingest"
    /\ pdf_file_paths # <<>>
    /\ \E w \in 1..MaxWorkersIO : max_workers_io' = w
    /\ tpc' = [i \in 1..Len(pdf_file_paths) |-> "new"]
    /\ pc' = "Reading"
    /\ UNCHANGED <<input_path, visited, messages, pdf_file_paths, submitted, texts,
                   texts_lock, counter, counter_lock, progress, errors, all_text,
                   filterVars, finalVars, result, cli>>

Tasks == 1..Len(tpc)
Running == {i \in Tasks : tpc[i] \notin {"new", "queued", "done"}}

restOfIngest == <<input_path, pc, visited, messages, pdf_file_paths, max_workers_io,
                  all_text, filterVars, finalVars, result, cli>>

\* The submit loop, lines 143-153: the next path joins the work queue.
Submit ==
    /\ pc = "Reading"
    /\ submitted < Len(pdf_file_paths)
    /\ submitted' = submitted + 1
    /\ tpc' = [tpc EXCEPT ![submitted + 1] = "queued"]
    /\ UNCHANGED <<texts, texts_lock, counter, counter_lock, progress, errors>>
    /\ UNCHANGED restOfIngest

\* A pool thread takes the oldest queued task; at most max_workers_io run.
StartTask(i) ==
    /\ pc = "Reading"
    /\ tpc[i] = "queued"
    /\ \A j \in 1..(i - 1) : tpc[j] # "queued"
    /\ Cardinality(Running) < max_workers_io
    /\ tpc' = [tpc EXCEPT ![i] = "extract"]
    /\ UNCHANGED <<submitted, texts, texts_lock, counter, counter_lock, progress, errors>>
    /\ UNCHANGED restOfIngest

\* _read_single_pdf lines 67-79: PdfReader and the page loop.
Extract(i) ==
    /\ pc = "Reading"
    /\ tpc[i] = "extract"
    /\ tpc' = [tpc EXCEPT ![i] = IF pdf_file_paths[i].doc.corrupt
                                 THEN "log_error" ELSE "lock_texts"]
    /\ UNCHANGED <<submitted, texts, texts_lock, counter, counter_lock, progress, errors>>
    /\ UNCHANGED restOfIngest

\* Line 81: with texts_lock.
AcquireTextsLock(i) ==
    /\ pc = "Reading"
    /\ tpc[i] = "lock_texts"
    /\ texts_lock = 0
    /\ texts_lock' = i
    /\ tpc' = [tpc EXCEPT ![i] = "append"]
    /\ UNCHANGED <<submitted, texts, counter, counter_lock, progress, errors>>
    /\ UNCHANGED restOfIngest

\* A variant that appends and goes on without releasing the lock.
AppendTextKeepsLock(i) ==
    /\ pc = "Reading"
    /\ tpc[i] = "append"
    /\ texts' = Append(texts, LocalText(pdf_file_paths[i].doc))
    /\ tpc' = [tpc EXCEPT ![i] = "lock_counter"]
    /\ UNCHANGED <<submitted, texts_lock, counter, counter_lock, progress, errors>>
    /\ UNCHANGED restOfIngest

\* Line 82: texts.append(local_text), and the lock is released.
AppendText(i) ==
    /\ pc = "Reading"
    /\ tpc[i] = "append"
    /\ texts' = Append(texts, LocalText(pdf_file_paths[i].doc))
    /\ texts_lock' = 0
    /\ tpc' = [tpc EXCEPT ![i] = "lock_counter"]
    /\ UNCHANGED <<submitted, counter, counter_lock, progress, errors>>
    /\ UNCHANGED restOfIngest

\* Lines 90-91: the failure is logged.
LogError(i) ==
    /\ pc = "Reading"
    /\ tpc[i] = "log_error"
    /\ errors' = errors \cup {i}
    /\ tpc' = [tpc EXCEPT ![i] = "lock_counter"]
    /\ UNCHANGED <<submitted, texts, texts_lock, counter, counter_lock, progress>>
    /\ UNCHANGED restOfIngest

\* Lines 84 and 94: with counter_lock.
AcquireCounterLock(i) ==
    /\ pc = "Reading"
    /\ tpc[i] = "lock_counter"
    /\ counter_lock = 0
    /\ counter_lock' = i
    /\ tpc' = [tpc EXCEPT ![i] = "increment"]
    /\ UNCHANGED <<submitted, texts, texts_lock, counter, progress, errors>>
    /\ UNCHANGED restOfIngest

\* A variant that releases the lock between the increment and the message.
IncrementReleasesLock(i) ==
    /\ pc = "Reading"
    /\ tpc[i] = "increment"
    /\ counter' = counter + 1
    /\ counter_lock' = 0
    /\ tpc' = [tpc EXCEPT ![i] = "report"]
    /\ UNCHANGED <<submitted, texts, texts_lock, progress, errors>>
    /\ UNCHANGED restOfIngest

\* Lines 85 and 95: counter.value += 1.
Increment(i) ==
    /\ pc = "Reading"
    /\ tpc[i] = "increment"
    /\ counter' = counter + 1
    /\ tpc' = [tpc EXCEPT ![i] = "report"]
    /\ UNCHANGED <<submitted, texts, texts_lock, counter_lock, progress, errors>>
    /\ UNCHANGED restOfIngest

\* Lines 86-88 and 96-98: the progress message reads counter.value, and the
\* lock is released.
Report(i) ==
    /\ pc = "Reading"
    /\ tpc[i] = "report"
    /\ progress' = Append(progress, counter)
    /\ counter_lock' = 0
    /\ tpc' = [tpc EXCEPT ![i] = "done"]
    /\ UNCHANGED <<submitted, texts, texts_lock, counter, errors>>
    /\ UNCHANGED restOfIngest

\* A variant that joins the texts with nothing between them.
JoinTextsNoSeparator(ts) == Join(<<>>, ts)

\* " ".join(texts), line 155.
JoinTexts(ts) == Join(<<" ">>, ts)

\* A variant that shuts the pool down without waiting for its tasks.
FinishReadingNoWait ==
    /\ pc = "Reading"
    /\ submitted = Len(pdf_file_paths)
    /\ all_text' = Join(<<" ">>, texts)
    /\ pc' = "CheckText"
    /\ UNCHANGED <<input_path, visited, messages, pdf_file_paths, ingestVars,
                   filterVars, finalVars, result, cli>>

\* The with block ends when every task has finished; line 155 returns.
FinishReading ==
    /\ pc = "Reading"
    /\ submitted = Len(pdf_file_paths)
    /\ \A i \in Tasks : tpc[i] = "done"
    /\ all_text' = JoinTexts(texts)
    /\ pc' = "CheckText"
    /\ UNCHANGED <<input_path, visited, messages, pdf_file_paths, ingestVars,
                   filterVars, finalVars, result, cli>>

\* The locals of read_pdfs_in_parallel are gone once it has returned.
ReaderLocalsDropped ==
    /\ max_workers_io' = 0
    /\ submitted' = 0
    /\ tpc' = <<>>
    /\ texts' = <<>>
    /\ texts_lock' = 0
    /\ counter' = 0
    /\ counter_lock' = 0
    /\ progress' = <<>>
    /\ errors' = {}

\* A variant that goes back to read the files again when the corpus is blank.
CheckTextRetries ==
    /\ pc = "CheckText"
    /\ IF IsBlank(all_text)
       THEN /\ pc' = "Ingest"
            /\ visited' = Append(visited, "Ingest")
       ELSE /\ pc' = "Tokenize"
            /\ visited' = Append(visited, "Tokenize")
    /\ ReaderLocalsDropped
    /\ UNCHANGED <<input_path, messages, result, pdf_file_paths, all_text,
                   filterVars, finalVars, cli>>

\* processor.py lines 70-81: the call has returned, and an empty or
\* whitespace-only corpus ends the run.
CheckText ==
    /\ pc = "CheckText"
    /\ IF IsBlank(all_text)
       THEN ReturnEmpty("Warning: no text extracted")
       ELSE /\ pc' = "Tokenize"
            /\ visited' = Append(visited, "Tokenize")
            /\ UNCHANGED <<messages, result>>
    /\ ReaderLocalsDropped
    /\ UNCHANGED <<input_path, pdf_file_paths, all_text, filterVars, finalVars, cli>>

\* ---------------------------------------------------------------- Tokenize

Range(f) == {f[i] : i \in DOMAIN f}

\* The exclusion lists a caller passes.
ExcludedChoices ==
    { <<>>,
      << <<"A", "B">> >>,
      << <<"a", "b", "b">>, <<"1", "1", "1">> >> }

\* excluded_set = set(word.lower() for word in excluded_words), line 90.
LowerSet(words) == {LowerText(w) : w \in Range(words)}

\* Lines 84-90.
TokenizeText ==
    /\ pc = "Tokenize"
    /\ raw_words' = Tokenize(all_text)
    /\ \E ex \in ExcludedChoices :
        /\ excluded_words' = ex
        /\ excluded_set' = LowerSet(ex)
    /\ pc' = "ParallelFilter"
    /\ visited' = Append(visited, "ParallelFilter")
    /\ UNCHANGED <<input_path, messages, pdf_file_paths, ingestVars, all_text,
                   num_processes, target_lang_codes, word_chunks, results,
                   completion, filtered_words, finalVars, result, cli>>

\* ---------------------------------------------------------- ParallelFilter

\* langdetect.detect with DetectorFactory.seed = 0: a fixed answer per word,
\* or a raised LangDetectException (no letters to go by), caught as None.
Detect(word) ==
    CASE word[1] = "a" -> Some("en")
      [] word[1] = "b" -> Some("tr")
      [] OTHER -> [some |-> FALSE, v |-> ""]

\* _detect_language_cached: the cache returns what detect returned.
DetectLanguageCached(word) == Detect(word)

\* A variant without the test of the length.
FilterWordByLanguageAnyLength(word, targets) ==
    LET detected_lang == DetectLanguageCached(word)
    IN IF ~detected_lang.some THEN FALSE
       ELSE detected_lang.v \in Range(targets)

\* filter_word_by_language, filters.py lines 41-47.
FilterWordByLanguage(word, targets) ==
    IF Len(word) < 3 THEN FALSE
    ELSE LET detected_lang == DetectLanguageCached(word)
         IN IF ~detected_lang.some THEN FALSE
            ELSE detected_lang.v \in Range(targets)

\* has_lang_filter = bool(target_lang_codes), line 72.
HasLangFilter(targets) == targets.some /\ targets.v # <<>>

\* A variant that forgets the exclusion test.
KeepWordIgnoresExclusion(word, excluded, targets) ==
    /\ Len(word) >= 2
    /\ HasLangFilter(targets) => FilterWordByLanguage(word, targets.v)

\* The loop body of filter_word_list, lines 75-84: whether word is appended.
KeepWord(word, excluded, targets) ==
    /\ ~(word \in excluded \/ Len(word) < 2)
    /\ (HasLangFilter(targets) /\ targets.some) => FilterWordByLanguage(word, targets.v)

\* A variant that returns the surviving words last to first.
FilterWordListReversed(words, excluded, targets) ==
    LET Keep(w) == KeepWord(w, excluded, targets)
        kept == SelectSeq(words, Keep)
    IN [n \in 1..Len(kept) |-> kept[Len(kept) + 1 - n]]

\* filter_word_list on (raw_words, excluded_set, target_lang_codes).
FilterWordList(words, excluded, targets) ==
    LET Keep(w) == KeepWord(w, excluded, targets)
    IN SelectSeq(words, Keep)

\* The number of results the cache of _detect_language_cached holds.  The
\* decorator of line 13 sets 50000; the model's cache is this small, so
\* that a list of a few words fills it.
CacheMaxSize == 2

\* A worker process: its cache, least recently used entry first, and the
\* calls of langdetect.detect it made, each with the position in the
\* chunk of the word that caused it.
NewWorker == [cache |-> <<>>, detected |-> <<>>]

CacheHit(cache, word) == \E n \in DOMAIN cache : cache[n].word = word

\* functools.lru_cache on a hit: the entry becomes the most recent one.
CacheTouch(cache, word) ==
    LET IsOther(e) == e.word # word
        hit == cache[CHOOSE n \in DOMAIN cache : cache[n].word = word]
    IN Append(SelectSeq(cache, IsOther), hit)

\* A variant of the cache that never drops an entry.
CacheStoreKeepsAll(cache, word, lang) == Append(cache, [word |-> word, lang |-> lang])

\* functools.lru_cache on a miss: the result is stored, and the least
\* recently used entry goes once the cache is over its size.
CacheStore(cache, word, lang) ==
    LET grown == Append(cache, [word |-> word, lang |-> lang])
    IN IF Len(grown) > CacheMaxSize THEN Tail(grown) ELSE grown

\* _detect_language_cached(word), lines 13-27, as the at-th word of a chunk.
CachedCall(w, word, at) ==
    IF CacheHit(w.cache, word)
    THEN [w EXCEPT !.cache = CacheTouch(w.cache, word)]
    ELSE [cache |-> CacheStore(w.cache, word, Detect(word)),
          detected |-> Append(w.detected, [word |-> word, at |-> at])]

\* One iteration of filter_word_list's loop, lines 75-81, for what it does
\* to the cache: the word reaches _detect_language_cached when it is not
\* excluded, has two or more characters, the language filter is on, and
\* filter_word_by_language (line 41) finds three or more characters.
WorkerStep(w, word, at, excluded, targets) ==
    IF /\ ~(word \in excluded \/ Len(word) < 2)
       /\ HasLangFilter(targets) /\ targets.some
       /\ ~(Len(word) < 3)
    THEN CachedCall(w, word, at)
    ELSE w

\* The worker after the first n words of its chunk.
RECURSIVE WorkerAfter(_, _, _, _)
WorkerAfter(words, n, excluded, targets) ==
    IF n = 0 THEN NewWorker
    ELSE WorkerStep(WorkerAfter(words, n - 1, excluded, targets),
                    words[n], n, excluded, targets)

\* The size of the pool when neither the caller nor the system names one.
DefaultProcesses == 4

\* num_processes = max_workers_cpu or os.cpu_count() or 4, line 92.
NumProcesses(max_workers_cpu, cpu_count) ==
    IF max_workers_cpu.some /\ max_workers_cpu.v # 0 THEN max_workers_cpu.v
    ELSE IF cpu_count.some /\ cpu_count.v # 0 THEN cpu_count.v
    ELSE DefaultProcesses

Max(a, b) == IF a >= b THEN a ELSE b

\* A variant that rounds the quotient up.
ChunkSizeCeiling(n, procs) == Max(1, (n + procs - 1) \div procs)

\* chunk_size = max(1, len(raw_words) // num_processes + 1), line 93.
ChunkSize(n, procs) == Max(1, (n \div procs) + 1)

\* raw_words[i : i + chunk_size] with i counted from 0.
Slice(words, i, size) ==
    SubSeq(words, i + 1, IF i + size > Len(words) THEN Len(words) ELSE i + size)

\* word_chunks, lines 95-97: the slices at 0, chunk_size, 2 * chunk_size, ...
WordChunks(words, size) ==
    LET starts == {i \in 0..(Len(words) - 1) : i % size = 0}
    IN [k \in 1..Cardinality(starts) |-> Slice(words, (k - 1) * size, size)]

TargetChoices == {NoneList, Some(<<>>), Some(<<"en">>)}
WorkerCounts == {None} \cup {Some(n) : n \in 1..MaxWorkersCPU}

Pending == [state |-> "pending", words |-> <<>>, worker |-> NewWorker]

\* Lines 92-104: the chunks are cut and handed to the process pool.
Partition ==
    /\ pc = "ParallelFilter"
    /\ \E mw \in WorkerCounts, cc \in WorkerCounts, tl \in TargetChoices :
        /\ num_processes' = NumProcesses(mw, cc)
        /\ target_lang_codes' = tl
        /\ word_chunks' = WordChunks(raw_words, ChunkSize(Len(raw_words), NumProcesses(mw, cc)))
    /\ results' = [k \in 1..Len(word_chunks') |-> Pending]
    /\ pc' = "Filtering"
    /\ UNCHANGED <<input_path, visited, messages, pdf_file_paths, ingestVars, all_text,
                   raw_words, excluded_words, excluded_set, completion,
                   filtered_words, finalVars, result, cli>>

restOfFilter == <<input_path, pc, visited, messages, pdf_file_paths, ingestVars, all_text,
                  raw_words, excluded_words, excluded_set, num_processes,
                  target_lang_codes, word_chunks, filtered_words, finalVars,
                  result, cli>>

\* A worker process returns filter_word_list of its chunk.
WorkerDone(k) ==
    /\ pc = "Filtering"
    /\ results[k].state = "pending"
    /\ results' = [results EXCEPT ![k] =
                     [state |-> "done",
                      words |-> FilterWordList(word_chunks[k], excluded_set,
                                               target_lang_codes),
                      worker |-> WorkerAfter(word_chunks[k], Len(word_chunks[k]),
                                             excluded_set, target_lang_codes)]]
    /\ completion' = Append(completion, k)
    /\ UNCHANGED restOfFilter

\* A worker process dies or raises: its future holds the exception.
WorkerFail(k) ==
    /\ pc = "Filtering"
    /\ results[k].state = "pending"
    /\ results' = [results EXCEPT ![k] = [state |-> "failed", words |-> <<>>, worker |-> NewWorker]]
    /\ UNCHANGED <<completion, restOfFilter>>

RECURSIVE Chain(_)
Chain(lists) == IF lists = <<>> THEN <<>> ELSE lists[1] \o Chain(Tail(lists))

\* A variant that chains the results in the order the workers finished.
ChainInCompletionOrder(res, order) == Chain([n \in 1..Len(order) |-> res[order[n]].words])

\* list(itertools.chain.from_iterable(results)), line 105: executor.map
\* yields the results in the order of the chunks, whatever order the
\* workers finished in.
ChainResults(res, order) == Chain([k \in 1..Len(res) |-> res[k].words])

\* A variant that recovers partial results: it chains what the workers
\* that did not fail returned.
CollectResultsSkipsFailed ==
    /\ pc = "Filtering"
    /\ \A k \in 1..Len(results) : results[k].state # "pending"
    /\ filtered_words' = Chain([k \in 1..Len(results) |-> results[k].words])
    /\ pc' = "Aggregate"
    /\ visited' = Append(visited, "Aggregate")
    /\ UNCHANGED <<input_path, messages, pdf_file_paths, ingestVars, all_text,
                   raw_words, excluded_words, excluded_set, num_processes,
                   target_lang_codes, word_chunks, results, completion, finalVars,
                   result, cli>>

\* Line 105, every future done: the results are chained.
CollectResults ==
    /\ pc = "Filtering"
    /\ \A k \in 1..Len(results) : results[k].state = "done"
    /\ filtered_words' = ChainResults(results, completion)
    /\ pc' = "Aggregate"
    /\ visited' = Append(visited, "Aggregate")
    /\ UNCHANGED <<input_path, messages, pdf_file_paths, ingestVars, all_text,
                   raw_words, excluded_words, excluded_set, num_processes,
                   target_lang_codes, word_chunks, results, completion, finalVars,
                   result, cli>>

\* A variant with a handler around the pool that logs and returns (0, {}).
CollectReturnsEmpty ==
    /\ pc = "Filtering"
    /\ \E k \in 1..Len(results) :
        /\ results[k].state = "failed"
        /\ \A j \in 1..(k - 1) : results[j].state = "done"
    /\ ReturnEmpty("Error: filtering failed")
    /\ UNCHANGED <<input_path, pdf_file_paths, ingestVars, all_text,
                   filterVars, finalVars, cli>>

\* Line 105, the iteration reaches a failed future: its exception leaves the
\* with block and calculate_word_frequency_and_filter, which has no handler.
CollectRaises ==
    /\ pc = "Filtering"
    /\ \E k \in 1..Len(results) :
        /\ results[k].state = "failed"
        /\ \A j \in 1..(k - 1) : results[j].state = "done"
    /\ pc' = "Raised"
    /\ UNCHANGED <<input_path, visited, messages, pdf_file_paths, ingestVars, all_text,
                   filterVars, finalVars, result, cli>>

\* ------------------------------------------------ Aggregate, FrequencyFilter

\* count_frequencies: dict(Counter(words)).
CountFrequencies(words) ==
    [w \in Range(words) |-> Cardinality({i \in DOMAIN words : words[i] = w})]

\* A variant that counts the words before the filter.
TotalCountsRawWords(raw, filtered) == Len(raw)

\* total_valid_word_count = len(filtered_words), line 112.
TotalValidWordCount(raw, filtered) == Len(filtered)

\* Lines 107-113; the pool and its futures are gone with the with block.
Aggregate ==
    /\ pc = "Aggregate"
    /\ total_valid_word_count' = TotalValidWordCount(raw_words, filtered_words)
    /\ word_frequency' = CountFrequencies(filtered_words)
    /\ results' = <<>>
    /\ completion' = <<>>
    /\ pc' = "FrequencyFilter"
    /\ visited' = Append(visited, "FrequencyFilter")
    /\ UNCHANGED <<input_path, messages, pdf_file_paths, ingestVars, all_text,
                   raw_words, excluded_words, excluded_set, num_processes,
                   target_lang_codes, word_chunks, filtered_words, freq_args,
                   result, cli>>

\* An upper bound: an integer, or float("inf").
Finite(n) == [inf |-> FALSE, v |-> n]
Infinity == [inf |-> TRUE, v |-> 0]

\* A variant whose upper bound is exclusive.
FilterByFrequencyRangeExclusive(fd, min_f, max_f) ==
    [w \in {x \in DOMAIN fd : min_f <= fd[x] /\ (max_f.inf \/ fd[x] < max_f.v)} |-> fd[w]]

\* filter_by_frequency_range: min_freq <= freq <= max_freq.
FilterByFrequencyRange(fd, min_f, max_f) ==
    [w \in {x \in DOMAIN fd : min_f <= fd[x] /\ (max_f.inf \/ fd[x] <= max_f.v)} |-> fd[w]]

\* A variant that looks at the first listed frequency only.
FilterByExactFirstOnly(fd, exact) ==
    [w \in {x \in DOMAIN fd : fd[x] = exact[1]} |-> fd[w]]

\* filter_by_exact_frequency: freq in set(exact_freqs).
FilterByExactFrequency(fd, exact) ==
    LET exact_freqs_set == Range(exact)
    IN [w \in {x \in DOMAIN fd : fd[x] \in exact_freqs_set} |-> fd[w]]

\* A variant that tests "exact_freqs is not None".
HasExactNotNone(exact_freqs) == exact_freqs.some

\* "if exact_freqs:", line 116: a list that is neither None nor empty.
HasExact(exact_freqs) == exact_freqs.some /\ exact_freqs.v # <<>>

\* "elif min_freq is not None or max_freq is not None", line 118.
HasRange(min_freq, max_freq) == min_freq.some \/ max_freq.some

\* A variant that applies the exact filter and then the range as well.
FinalFrequencyAppliesBoth(fd, args) ==
    LET min_f == IF args.min_freq.some THEN args.min_freq.v ELSE 0
        max_f == IF args.max_freq.some THEN Finite(args.max_freq.v) ELSE Infinity
        first == IF HasExact(args.exact_freqs)
                 THEN FilterByExactFrequency(fd, args.exact_freqs.v)
                 ELSE fd
    IN IF HasRange(args.min_freq, args.max_freq)
       THEN FilterByFrequencyRange(first, min_f, max_f)
       ELSE first

\* Phase 3, lines 116-123.
FinalFrequency(fd, args) ==
    IF HasExact(args.exact_freqs)
    THEN FilterByExactFrequency(fd, args.exact_freqs.v)
    ELSE IF HasRange(args.min_freq, args.max_freq)
    THEN LET min_f == IF args.min_freq.some THEN args.min_freq.v ELSE 0
             max_f == IF args.max_freq.some THEN Finite(args.max_freq.v) ELSE Infinity
         IN FilterByFrequencyRange(fd, min_f, max_f)
    ELSE fd

OptFreqs == {None} \cup {Some(n) : n \in 1..MaxFreq}

\* The frequency settings a caller passes: a range, an exact list, or both.
FreqArgChoices ==
    UNION {{[min_freq |-> lo, max_freq |-> hi, exact_freqs |-> NoneList] :
                hi \in {None, lo, Some(lo.v + 1)}} : lo \in OptFreqs}
    \cup {[min_freq |-> None, max_freq |-> None, exact_freqs |-> Some(e)] :
            e \in {<<>>, <<2>>, <<3>>, <<1, 4, 1>>}}
    \cup {[min_freq |-> Some(1), max_freq |-> Some(1), exact_freqs |-> Some(<<2>>)],
          [min_freq |-> Some(2), max_freq |-> None, exact_freqs |-> Some(<<>>)]}

\* Lines 115-125.
FrequencyFilter ==
    /\ pc = "FrequencyFilter"
    /\ \E args \in FreqArgChoices :
        /\ freq_args' = args
        /\ result' = Returned(total_valid_word_count, FinalFrequency(word_frequency, args))
    /\ pc' = "Done"
    /\ visited' = Append(visited, "Done")
    /\ UNCHANGED <<input_path, messages, pdf_file_paths, ingestVars, all_text,
                   filterVars, total_valid_word_count, word_frequency, cli>>

\* ------------------------------------------------------------ command line

\* cli.py lines 152-170: main after the orchestrator has returned.
MainReports ==
    /\ pc = "Done"
    /\ cli = "running"
    /\ cli' = IF result.total > 0 /\ DOMAIN result.freq # {}
              THEN "written" ELSE "no_results"
    /\ UNCHANGED <<input_path, pc, visited, messages, pdf_file_paths, ingestVars,
                   all_text, filterVars, finalVars, result>>

\* cli.py lines 173-177: the guard catches what escaped main.
MainGuard ==
    /\ pc = "Raised"
    /\ cli = "running"
    /\ cli' = "critical_error"
    /\ messages' = Append(messages, "Critical Error")
    /\ UNCHANGED <<input_path, pc, visited, pdf_file_paths, ingestVars,
                   all_text, filterVars, finalVars, result>>

Next ==
    \/ Discover
    \/ StartReading
    \/ Submit
    \/ \E i \in Tasks : StartTask(i)
    \/ \E i \in Tasks : Extract(i)
    \/ \E i \in Tasks : AcquireTextsLock(i)
    \/ \E i \in Tasks : AppendText(i)
    \/ \E i \in Tasks : LogError(i)
    \/ \E i \in Tasks : AcquireCounterLock(i)
    \/ \E i \in Tasks : Increment(i)
    \/ \E i \in Tasks : Report(i)
    \/ FinishReading
    \/ CheckText
    \/ TokenizeText
    \/ Partition
    \/ \E k \in 1..Len(results) : WorkerDone(k)
    \/ \E k \in 1..Len(results) : WorkerFail(k)
    \/ CollectResults
    \/ CollectRaises
    \/ Aggregate
    \/ FrequencyFilter
    \/ MainReports
    \/ MainGuard

Spec == Init /\ [][Next]_vars

\* ------------------------------- read_pdfs_in_parallel with any logger

\* read_pdfs_in_parallel called on its own, with any list of paths and a
\* logger of the caller's that may raise on any call.
ReaderDocs == {DocCorrupt, DocA}

InitReader ==
    /\ pdf_file_paths \in SeqsUpTo({Entry("pdf", d) : d \in ReaderDocs}, MaxFiles)
    /\ pc = "Ingest"
    /\ visited = <<"Ingest">>
    /\ input_path = [kind |-> "dir", entries |-> pdf_file_paths]
    /\ messages = <<>>
    /\ max_workers_io = 0
    /\ submitted = 0
    /\ tpc = <<>>
    /\ texts = <<>>
    /\ texts_lock = 0
    /\ counter = 0
    /\ counter_lock = 0
    /\ progress = <<>>
    /\ errors = {}
    /\ all_text = <<>>
    /\ raw_words = <<>>
    /\ excluded_words = <<>>
    /\ excluded_set = {}
    /\ num_processes = 0
    /\ target_lang_codes = NoneList
    /\ word_chunks = <<>>
    /\ results = <<>>
    /\ completion = <<>>
    /\ filtered_words = <<>>
    /\ total_valid_word_count = 0
    /\ word_frequency = EmptyMap
    /\ freq_args = NoFreqArgs
    /\ result = NotReturned
    /\ cli = "running"

\* Lines 127-128: an empty list returns "" at once.
ReadNothing ==
    /\ pc = "Ingest"
    /\ pdf_file_paths = <<>>
    /\ all_text' = <<>>
    /\ pc' = "CheckText"
    /\ UNCHANGED <<input_path, visited, messages, pdf_file_paths, ingestVars,
                   filterVars, finalVars, result, cli>>

\* Lines 139-140: the logger raises before the pool exists, and the call raises.
ReaderLoggerRaises ==
    /\ pc = "Ingest"
    /\ pdf_file_paths # <<>>
    /\ pc' = "Raised"
    /\ UNCHANGED <<input_path, visited, messages, pdf_file_paths, ingestVars,
                   all_text, filterVars, finalVars, result, cli>>

\* Lines 86-88: the logger raises inside the try; the with statement
\* releases the lock and the handler of line 90 takes over.  Lines 96-98:
\* the logger raises inside the handler; the lock is released and the
\* exception ends the task, kept in a future that nobody reads.
ReportRaises(i) ==
    /\ pc = "Reading"
    /\ tpc[i] = "report"
    /\ counter_lock' = 0
    /\ tpc' = [tpc EXCEPT ![i] = IF i \in errors THEN "done" ELSE "log_error"]
    /\ UNCHANGED <<submitted, texts, texts_lock, counter, progress, errors>>
    /\ UNCHANGED restOfIngest

\* Line 91: the logger raises in the handler, before the counter is touched.
LogErrorRaises(i) ==
    /\ pc = "Reading"
    /\ tpc[i] = "log_error"
    /\ tpc' = [tpc EXCEPT ![i] = "done"]
    /\ UNCHANGED <<submitted, texts, texts_lock, counter, counter_lock, progress, errors>>
    /\ UNCHANGED restOfIngest

NextReader ==
    \/ ReadNothing
    \/ ReaderLoggerRaises
    \/ StartReading
    \/ Submit
    \/ \E i \in Tasks : StartTask(i)
    \/ \E i \in Tasks : Extract(i)
    \/ \E i \in Tasks : AcquireTextsLock(i)
    \/ \E i \in Tasks : AppendText(i)
    \/ \E i \in Tasks : LogError(i)
    \/ \E i \in Tasks : LogErrorRaises(i)
    \/ \E i \in Tasks : AcquireCounterLock(i)
    \/ \E i \in Tasks : Increment(i)
    \/ \E i \in Tasks : Report(i)
    \/ \E i \in Tasks : ReportRaises(i)
    \/ FinishReading

SpecReader == InitReader /\ [][NextReader]_vars

\* The threads of the pool keep being scheduled: while some step of the
\* call can be taken, one is taken.
FairSpecReader == SpecReader /\ WF_vars(NextReader)

\* ------------------------------------------------ Phase 2 on its own inputs

\* Phase 2 entered with any list of up to MaxWords words and an exclusion
\* list; the earlier phases are not followed.
MaxWords == 4
SampleWords ==
    { <<"t", "h", "e">>, <<"c", "a", "t">>, <<"a">>, <<"x", "x">>, <<"a", "b", "b">> }

\* processor.py line 90 has produced raw_words and excluded_set.
InitFilter ==
    /\ raw_words \in SeqsUpTo(SampleWords, MaxWords)
    /\ excluded_words \in {<<>>, << <<"t", "h", "e">> >>}
    /\ excluded_set = LowerSet(excluded_words)
    /\ pc = "ParallelFilter"
    /\ visited = <<"Discover", "Ingest", "Tokenize", "ParallelFilter">>
    /\ input_path = [kind |-> "dir", entries |-> <<>>]
    /\ messages = <<>>
    /\ pdf_file_paths = <<>>
    /\ max_workers_io = 0
    /\ submitted = 0
    /\ tpc = <<>>
    /\ texts = <<>>
    /\ texts_lock = 0
    /\ counter = 0
    /\ counter_lock = 0
    /\ progress = <<>>
    /\ errors = {}
    /\ all_text = <<>>
    /\ num_processes = 0
    /\ target_lang_codes = NoneList
    /\ word_chunks = <<>>
    /\ results = <<>>
    /\ completion = <<>>
    /\ filtered_words = <<>>
    /\ total_valid_word_count = 0
    /\ word_frequency = EmptyMap
    /\ freq_args = NoFreqArgs
    /\ result = NotReturned
    /\ cli = "running"

NextFilter ==
    \/ Partition
    \/ \E k \in 1..Len(results) : WorkerDone(k)
    \/ CollectResults

SpecFilter == InitFilter /\ [][NextFilter]_vars

\* ------------------------------------------------ Phase 3 on its own inputs

\* Phase 3 entered with any filtered list over a few words, each occurring
\* up to MaxCount times; the earlier phases are not followed.
MaxCount == 5
FreqWords == << <<"a", "a">>, <<"b", "b">>, <<"c", "c">> >>

\* The list in which the k-th and later words of FreqWords occur counts[k] times.
RECURSIVE WordsWithCounts(_, _)
WordsWithCounts(counts, k) ==
    IF k > Len(FreqWords) THEN <<>>
    ELSE [i \in 1..counts[k] |-> FreqWords[k]] \o WordsWithCounts(counts, k + 1)

FilteredLists ==
    {WordsWithCounts(counts, 1) : counts \in [1..Len(FreqWords) -> 0..MaxCount]}

\* processor.py line 105 has produced filtered_words.
InitFreq ==
    /\ filtered_words \in FilteredLists
    /\ raw_words = filtered_words
    /\ pc = "Aggregate"
    /\ visited = <<"Discover", "Ingest", "Tokenize", "ParallelFilter", "Aggregate">>
    /\ input_path = [kind |-> "dir", entries |-> <<>>]
    /\ messages = <<>>
    /\ pdf_file_paths = <<>>
    /\ max_workers_io = 0
    /\ submitted = 0
    /\ tpc = <<>>
    /\ texts = <<>>
    /\ texts_lock = 0
    /\ counter = 0
    /\ counter_lock = 0
    /\ progress = <<>>
    /\ errors = {}
    /\ all_text = <<>>
    /\ excluded_words = <<>>
    /\ excluded_set = {}
    /\ num_processes = 0
    /\ target_lang_codes = NoneList
    /\ word_chunks = <<>>
    /\ results = <<>>
    /\ completion = <<>>
    /\ total_valid_word_count = 0
    /\ word_frequency = EmptyMap
    /\ freq_args = NoFreqArgs
    /\ result = NotReturned
    /\ cli = "running"

NextFreq ==
    \/ Aggregate
    \/ FrequencyFilter
    \/ MainReports

SpecFreq == InitFreq /\ [][NextFreq]_vars

\* ------------------------------------------------------------------ claims

\* How often x occurs in the sequence s.
Occurrences(s, x) == Cardinality({i \in DOMAIN s : s[i] = x})

\* The sum of the values of a frequency map.
RECURSIVE SumOver(_, _)
SumOver(fd, keys) ==
    IF keys = {} THEN 0
    ELSE LET w == CHOOSE x \in keys : TRUE
         IN fd[w] + SumOver(fd, keys \ {w})
SumValues(fd) == SumOver(fd, DOMAIN fd)

\* The run went through aggregation and returned.
ReturnedAfterAggregate == result.returned /\ "Aggregate" \in Range(visited)

\* The caller asked for a frequency filter: a non-empty exact list, or a bound.
FrequencyFilterGiven ==
    \/ (freq_args.exact_freqs.some /\ Len(freq_args.exact_freqs.v) > 0)
    \/ freq_args.min_freq.some
    \/ freq_args.max_freq.some

\* The caller's target languages, when the language filter is on.
TargetsGiven == target_lang_codes.some /\ Len(target_lang_codes.v) > 0

\* A word passes the exclusion, length and language criteria.
PassesCriteria(w) ==
    /\ \A x \in Range(excluded_words) : w # LowerText(x)
    /\ Len(w) >= 2
    /\ TargetsGiven =>
         /\ Len(w) >= 3
         /\ Detect(w).some
         /\ \E n \in DOMAIN target_lang_codes.v : target_lang_codes.v[n] = Detect(w).v

C3_KeysPassedFilters ==
    result.returned => \A w \in DOMAIN result.freq : PassesCriteria(w)

\* C3 witness: several chunks, an exclusion and a language filter that each
\* removed a word, and a map that still has keys.
C3_Witness ==
    /\ result.returned
    /\ DOMAIN result.freq # {}
    /\ Len(word_chunks) > 1
    /\ TargetsGiven
    /\ \E i \in DOMAIN raw_words : raw_words[i] \in excluded_set
    /\ \E i \in DOMAIN raw_words :
        /\ raw_words[i] \notin excluded_set
        /\ Len(raw_words[i]) >= 3
        /\ ~PassesCriteria(raw_words[i])

\* The documents of the discovered paths that PdfReader can open.
ReadablePaths == SelectSeq(pdf_file_paths, LAMBDA e : ~e.doc.corrupt)

\* The words of the readable documents, document by document in path order.
WordsPerDocument ==
    Chain([i \in 1..Len(ReadablePaths) |-> Tokenize(LocalText(ReadablePaths[i].doc))])

\* The result the input files and the settings determine, computed without
\* reference to the order of ingestion or to the chunking.
ExpectedResult ==
    LET survivors == SelectSeq(WordsPerDocument, PassesCriteria)
        counts == [w \in Range(survivors) |-> Occurrences(survivors, w)]
        exact == freq_args.exact_freqs
        kept == IF exact.some /\ Len(exact.v) > 0
                THEN {w \in DOMAIN counts : \E n \in DOMAIN exact.v : exact.v[n] = counts[w]}
                ELSE {w \in DOMAIN counts :
                        /\ freq_args.min_freq.some => counts[w] >= freq_args.min_freq.v
                        /\ freq_args.max_freq.some => counts[w] <= freq_args.max_freq.v}
    IN Returned(Len(survivors), [w \in kept |-> counts[w]])

\* C4: the returned total and frequency map are determined by the input
\* files and the settings alone: they are the same for every order in which
\* the ingestion threads append their texts and for every thread-pool size.
C4_ResultIndependentOfInterleaving ==
    ReturnedAfterAggregate => result = ExpectedResult

\* C4 witness: two texts were appended against the order of their paths,
\* and the run returned a non-empty map.
C4_Witness ==
    /\ ReturnedAfterAggregate
    /\ DOMAIN result.freq # {}
    /\ Len(pdf_file_paths) = 2
    /\ pdf_file_paths[1].doc # pdf_file_paths[2].doc
    /\ all_text = LocalText(pdf_file_paths[2].doc) \o <<" ">>
                     \o LocalText(pdf_file_paths[1].doc)
    /\ Tokenize(LocalText(pdf_file_paths[1].doc)) # <<>>
    /\ Tokenize(LocalText(pdf_file_paths[2].doc)) # <<>>

\* The input path is neither a .pdf file nor a directory, or a directory
\* without PDF files.
DiscoveryFails ==
    \/ input_path.kind = "missing"
    \/ input_path.kind = "file" /\ input_path.entries[1].ext \notin {"pdf", "PDF"}
    \/ /\ input_path.kind = "dir"
       /\ \A i \in DOMAIN input_path.entries : input_path.entries[i].ext \notin {"pdf", "PDF"}

\* Ingestion has not started: no pool, no task, no text.
IngestionUntouched ==
    /\ max_workers_io = 0
    /\ submitted = 0
    /\ tpc = <<>>
    /\ texts = <<>>
    /\ counter = 0
    /\ progress = <<>>

\* C5: a failing discovery makes the orchestrator return (0, {}) without
\* raising, and neither ingestion nor any later phase starts.
C5_DiscoveryFailureReturnsEmpty ==
    (DiscoveryFails /\ pc # "Discover") =>
        /\ pc = "Done"
        /\ result = Returned(0, EmptyMap)
        /\ visited = <<"Discover", "Done">>
        /\ IngestionUntouched
        /\ cli # "critical_error"

\* C5 witness: a directory whose only entries are not PDF files.
C5_Witness ==
    /\ pc = "Done"
    /\ result.returned
    /\ input_path.kind = "dir"
    /\ Len(input_path.entries) > 0
    /\ DiscoveryFails

\* read_pdfs_in_parallel has just returned.
ReadingReturned == pc = "CheckText"

\* The orchestrator has gone past the test of the corpus.
CorpusTested == "Ingest" \in Range(visited) /\ pc \notin {"Ingest", "Reading", "CheckText"}

\* C6: a failing extraction does not abort the ingestion: when
\* read_pdfs_in_parallel returns every path has been processed, and the
\* corpus is the space-joined list of the texts of the readable files, each
\* exactly once, with nothing from the files that failed.
C6_FailedFileContributesNothing ==
    ReadingReturned =>
        /\ \A i \in DOMAIN tpc : tpc[i] = "done"
        /\ Len(texts) = Len(ReadablePaths)
        /\ \A i \in DOMAIN ReadablePaths :
            Occurrences(texts, LocalText(ReadablePaths[i].doc))
              = Occurrences([n \in DOMAIN ReadablePaths |-> LocalText(ReadablePaths[n].doc)],
                            LocalText(ReadablePaths[i].doc))
        /\ all_text = Join(<<" ">>, texts)
        /\ errors = {i \in DOMAIN pdf_file_paths : pdf_file_paths[i].doc.corrupt}

\* C6 witness: the first path failed, the second was still read and its
\* text is the corpus.
C6_Witness ==
    /\ ReadingReturned
    /\ Len(pdf_file_paths) = 2
    /\ pdf_file_paths[1].doc.corrupt
    /\ ~pdf_file_paths[2].doc.corrupt
    /\ all_text = LocalText(pdf_file_paths[2].doc)
    /\ Tokenize(all_text) # <<>>

\* The corpus is empty or holds whitespace only.
CorpusBlank == \A i \in DOMAIN all_text : all_text[i] = " "

LaterPhases == {"Tokenize", "ParallelFilter", "Aggregate", "FrequencyFilter"}

\* C7: an empty or whitespace-only corpus makes the orchestrator return
\* (0, {}) without entering tokenization, the parallel filter, aggregation
\* or the frequency filter.
C7_BlankCorpusReturnsEmpty ==
    (CorpusTested /\ CorpusBlank) =>
        /\ pc = "Done"
        /\ result = Returned(0, EmptyMap)
        /\ Range(visited) \cap LaterPhases = {}
        /\ raw_words = <<>>
        /\ results = <<>>
        /\ num_processes = 0

\* C7 witness: a file was read, its text is whitespace only, and the run
\* has ended.
C7_Witness ==
    /\ pc = "Done"
    /\ CorpusTested
    /\ CorpusBlank
    /\ Len(all_text) > 0

\* A filter worker failed and the orchestrator has left the pool.
WorkerFailureSeen ==
    /\ pc # "Filtering"
    /\ \E k \in DOMAIN results : results[k].state = "failed"

\* The run ended on a fatal condition of discovery or ingestion.
EndedBeforeTokenize == pc = "Done" /\ "Tokenize" \notin Range(visited)

\* C8 as stated: every fatal condition, a failed filter worker included,
\* ends with a message and the returned empty result, and no exception
\* leaves the orchestrator.
C8_EveryFatalConditionReturnsEmpty ==
    /\ pc # "Raised"
    /\ (EndedBeforeTokenize \/ WorkerFailureSeen) =>
        /\ result = Returned(0, EmptyMap)
        /\ Len(messages) > 0

\* C8 amended: a fatal condition of discovery or ingestion ends with a
\* message and the returned empty result; a failed filter worker makes the
\* exception leave the orchestrator, which returns nothing, and the guard
\* of the command line turns it into the Critical Error message, with no
\* output written.
C8_FatalConditionsAmended ==
    /\ EndedBeforeTokenize =>
        /\ result = Returned(0, EmptyMap)
        /\ Len(messages) = 1
        /\ cli \in {"running", "no_results"}
    /\ WorkerFailureSeen =>
        /\ pc = "Raised"
        /\ result = NotReturned
        /\ cli \in {"running", "critical_error"}
        /\ cli = "critical_error" =>
            (Len(messages) > 0 /\ messages[Len(messages)] = "Critical Error")
    /\ pc = "Raised" => \E k \in DOMAIN results : results[k].state = "failed"

\* C8 witness: a worker failed, the exception left the orchestrator and the
\* guard reported it.
C8_Witness ==
    /\ WorkerFailureSeen
    /\ pc = "Raised"
    /\ cli = "critical_error"
    /\ ~result.returned

\* C9: once a filter worker has failed, nothing is aggregated or returned:
\* no chained word list, no frequency map, no result, whatever the other
\* chunks produced; and aggregation only ever follows a pool in which every
\* chunk was filtered.
C9_NoPartialAggregation ==
    /\ (\E k \in DOMAIN results : results[k].state = "failed") =>
        /\ pc \in {"Filtering", "Raised"}
        /\ filtered_words = <<>>
        /\ word_frequency = EmptyMap
        /\ total_valid_word_count = 0
        /\ ~result.returned
        /\ Range(visited) \cap {"Aggregate", "FrequencyFilter", "Done"} = {}
    /\ pc = "Aggregate" =>
        /\ Len(results) = Len(word_chunks)
        /\ \A k \in DOMAIN results : results[k].state = "done"

\* C9 witness: one chunk was filtered to a non-empty list, another worker
\* failed, and the run ended with the exception.
C9_Witness ==
    /\ pc = "Raised"
    /\ \E k \in DOMAIN results : results[k].state = "failed"
    /\ \E k \in DOMAIN results : results[k].state = "done" /\ results[k].words # <<>>

\* C10: the output of the parallel filter is the concatenation of the
\* filtered chunks in chunk order, for every pool size and every order in
\* which the workers finish, and equals the chunk filter applied once to
\* the whole word list.
C10_ChunkOrderReassembly ==
    "Aggregate" \in Range(visited) =>
        /\ filtered_words = FilterWordList(raw_words, excluded_set, target_lang_codes)
        /\ filtered_words =
             Chain([k \in DOMAIN word_chunks |->
                      FilterWordList(word_chunks[k], excluded_set, target_lang_codes)])

\* C10 witness: two or more chunks with different non-empty results, whose
\* workers finished against the chunk order.
C10_Witness ==
    /\ pc = "Aggregate"
    /\ Len(results) >= 2
    /\ completion[1] # 1
    /\ results[completion[1]].words # <<>>
    /\ results[1].words # <<>>
    /\ results[1].words # results[completion[1]].words

\* The caller's range is what Phase 3 applied: no usable exact list, a bound set.
RangeApplied ==
    /\ ReturnedAfterAggregate
    /\ ~(freq_args.exact_freqs.some /\ Len(freq_args.exact_freqs.v) > 0)
    /\ (freq_args.min_freq.some \/ freq_args.max_freq.some)

\* C11: the range filter keeps exactly the entries whose count c satisfies
\* min <= c <= max, both bounds inclusive; an unset minimum bounds nothing
\* from below (it acts as 0) and an unset maximum nothing from above; every
\* retained entry keeps its count.
C11_RangeKeepsInclusiveBounds ==
    RangeApplied =>
        /\ DOMAIN result.freq =
             {w \in DOMAIN word_frequency :
                /\ (IF freq_args.min_freq.some THEN freq_args.min_freq.v ELSE 0)
                      <= word_frequency[w]
                /\ freq_args.max_freq.some => word_frequency[w] <= freq_args.max_freq.v}
        /\ \A w \in DOMAIN result.freq : result.freq[w] = word_frequency[w]

\* C11 witness: counts equal to the minimum and to the maximum are kept,
\* counts of min - 1 and of max + 1 are removed.
C11_Witness ==
    /\ RangeApplied
    /\ freq_args.min_freq.some
    /\ freq_args.max_freq.some
    /\ \E w \in DOMAIN result.freq : word_frequency[w] = freq_args.min_freq.v
    /\ \E w \in DOMAIN result.freq : word_frequency[w] = freq_args.max_freq.v
    /\ \E w \in DOMAIN word_frequency \ DOMAIN result.freq :
          word_frequency[w] = freq_args.min_freq.v - 1
    /\ \E w \in DOMAIN word_frequency \ DOMAIN result.freq :
          word_frequency[w] = freq_args.max_freq.v + 1

\* The caller's exact list is what Phase 3 applied: it is not empty.
ExactApplied ==
    /\ ReturnedAfterAggregate
    /\ freq_args.exact_freqs.some
    /\ Len(freq_args.exact_freqs.v) > 0

\* C12: the exact filter keeps exactly the entries whose count occurs in
\* the list, however often it is listed, and every retained entry keeps
\* its count.
C12_ExactKeepsListedCounts ==
    ExactApplied =>
        /\ DOMAIN result.freq =
             {w \in DOMAIN word_frequency :
                \E n \in DOMAIN freq_args.exact_freqs.v :
                    freq_args.exact_freqs.v[n] = word_frequency[w]}
        /\ \A w \in DOMAIN result.freq : result.freq[w] = word_frequency[w]

\* C12 witness: counts 3, 5, 3 filtered with the list [3] leave the two
\* entries of count 3.
C12_Witness ==
    /\ ExactApplied
    /\ freq_args.exact_freqs.v = <<3>>
    /\ DOMAIN word_frequency = Range(FreqWords)
    /\ word_frequency[FreqWords[1]] = 3
    /\ word_frequency[FreqWords[2]] = 5
    /\ word_frequency[FreqWords[3]] = 3
    /\ DOMAIN result.freq = {FreqWords[1], FreqWords[3]}
    /\ \A w \in DOMAIN result.freq : result.freq[w] = 3

\* C13: the progress counter is incremented exactly once for every
\* submitted path, whether its extraction succeeds or fails, a failure
\* after the text was appended included: the counter never exceeds the
\* number N of paths and equals N when read_pdfs_in_parallel returns.
C13_CounterOncePerPath ==
    /\ counter <= Len(pdf_file_paths)
    /\ pc = "CheckText" => counter = Len(pdf_file_paths)

\* The chunks have been cut.
Partitioned == pc \in {"Filtering", "Aggregate"}

Ceiling(a, b) == (a + b - 1) \div b

\* Every chunk but the last has size words, the last one to size words.
ChunksOfSize(size) ==
    /\ \A k \in 1..(Len(word_chunks) - 1) : Len(word_chunks[k]) = size
    /\ word_chunks # <<>> =>
         /\ Len(word_chunks[Len(word_chunks)]) >= 1
         /\ Len(word_chunks[Len(word_chunks)]) <= size

\* C14 as stated: the chunks are contiguous slices of size
\* ceil(len(words) / worker_count), the last possibly shorter, none for an
\* empty list, and concatenated they are the word list.  (The number of
\* chunks is left to follow from the size.)
C14_ChunksOfCeilingSize ==
    Partitioned =>
        /\ ChunksOfSize(Ceiling(Len(raw_words), num_processes))
        /\ raw_words = <<>> => word_chunks = <<>>
        /\ Chain(word_chunks) = raw_words

\* C14 amended: the chunks are contiguous slices of size
\* floor(len(words) / worker_count) + 1, the last possibly shorter; there
\* are at most worker_count of them and none for an empty list; and
\* concatenated they are the word list.
C14_ChunksOfFloorPlusOne ==
    Partitioned =>
        /\ ChunksOfSize((Len(raw_words) \div num_processes) + 1)
        /\ Len(word_chunks) <= num_processes
        /\ raw_words = <<>> => word_chunks = <<>>
        /\ Chain(word_chunks) = raw_words

\* C14 witness: a list whose length the pool size divides, cut into
\* chunks larger than the quotient and fewer than the pool size.
C14_Witness ==
    /\ Partitioned
    /\ raw_words # <<>>
    /\ Len(raw_words) % num_processes = 0
    /\ Len(word_chunks) >= 2
    /\ Len(word_chunks) < num_processes
    /\ Len(word_chunks[1]) = (Len(raw_words) \div num_processes) + 1

\* C15: the chunk filter returns exactly the words of its chunk that are
\* not excluded, have two or more characters and, when target languages
\* are given, are classified into one of them, in the order and number in
\* which they occur in the chunk.
C15_ChunkFilterSubsequence ==
    \A k \in DOMAIN results :
        results[k].state = "done" =>
            results[k].words = SelectSeq(word_chunks[k], PassesCriteria)

\* C15 witness: [the, cat, a, xx] with the exclusion {the} and no target
\* languages gives [cat, xx].
C15_Witness ==
    /\ excluded_set = { <<"t", "h", "e">> }
    /\ ~TargetsGiven
    /\ \E k \in DOMAIN results :
        /\ results[k].state = "done"
        /\ word_chunks[k] = << <<"t", "h", "e">>, <<"c", "a", "t">>, <<"a">>, <<"x", "x">> >>
        /\ results[k].words = << <<"c", "a", "t">>, <<"x", "x">> >>

\* A held lock is held by a task that is inside the block the lock guards,
\* and no task holds both.
LockDiscipline ==
    /\ \A i \in Tasks : ~(texts_lock = i /\ counter_lock = i)
    /\ texts_lock # 0 => tpc[texts_lock] = "append"
    /\ counter_lock # 0 => tpc[counter_lock] \in {"increment", "report"}

C17_ReportsCountOneToN ==
    /\ \A n \in DOMAIN progress : progress[n] = n
    /\ pc = "CheckText" => Len(progress) = Len(pdf_file_paths)

\* C17 witness: a task is about to report the value it has just counted
\* while another task waits for the counter lock.
C17_Witness ==
    /\ pc = "Reading"
    /\ counter_lock # 0
    /\ tpc[counter_lock] = "report"
    /\ \E i \in Tasks : i # counter_lock /\ tpc[i] = "lock_counter"

PhaseOrder ==
    <<"Discover", "Ingest", "Tokenize", "ParallelFilter", "Aggregate",
      "FrequencyFilter", "Done">>

IsPrefix(s, t) == Len(s) <= Len(t) /\ s = SubSeq(t, 1, Len(s))

\* The phases of a run that returned the empty result from Discover or Ingest.
EarlyReturns == { <<"Discover", "Done">>, <<"Discover", "Ingest", "Done">> }

\* The phases so far are in the order of the pipeline, none of them twice.
PhasesInOrder == IsPrefix(visited, PhaseOrder) \/ visited \in EarlyReturns

\* The orchestrator has stopped without having reached the frequency filter.
StoppedEarly == pc \in {"Done", "Raised"} /\ "FrequencyFilter" \notin Range(visited)

\* A returned map that is not empty was aggregated from the complete
\* filtered word list.
MapComesFromAggregate ==
    (result.returned /\ DOMAIN result.freq # {}) =>
        /\ "Aggregate" \in Range(visited)
        /\ filtered_words = SelectSeq(raw_words, PassesCriteria)
        /\ DOMAIN word_frequency = Range(filtered_words)
        /\ \A w \in DOMAIN word_frequency :
              word_frequency[w] = Occurrences(filtered_words, w)
        /\ \A w \in DOMAIN result.freq : result.freq[w] = word_frequency[w]

\* C18 as stated: the phases are visited in the order Discover, Ingest,
\* Tokenize, ParallelFilter, Aggregate, FrequencyFilter, Done with no
\* phase entered twice; a run stops early only with the empty result
\* (0, {}) returned from Discover or Ingest; and a frequency map is
\* returned only after Aggregate ran on the complete filtered list.
C18_LinearPhases ==
    /\ PhasesInOrder
    /\ StoppedEarly =>
         /\ pc = "Done"
         /\ visited \in EarlyReturns
         /\ result = Returned(0, EmptyMap)
    /\ MapComesFromAggregate

\* C18 amended: as above, except that a run also stops early, in
\* ParallelFilter, when a filter worker fails: the exception leaves the
\* orchestrator, which returns nothing and never reaches Done.
C18_LinearPhasesOrRaise ==
    /\ PhasesInOrder
    /\ StoppedEarly =>
         \/ /\ pc = "Done"
            /\ visited \in EarlyReturns
            /\ result = Returned(0, EmptyMap)
         \/ /\ pc = "Raised"
            /\ visited[Len(visited)] = "ParallelFilter"
            /\ result = NotReturned
            /\ \E k \in DOMAIN results : results[k].state = "failed"
    /\ MapComesFromAggregate

\* C18 witness: a run that went through every phase and returned a map.
C18_Witness ==
    /\ pc = "Done"
    /\ visited = PhaseOrder
    /\ DOMAIN result.freq # {}

\* The word reaches the language classifier: the language filter is on,
\* the word is not excluded and has three or more characters.
Classified(w) ==
    /\ TargetsGiven
    /\ \A x \in Range(excluded_words) : w # LowerText(x)
    /\ Len(w) >= 3

\* The chunks whose worker has returned.
DoneChunks == {k \in DOMAIN results : results[k].state = "done"}

\* The positions in chunk k whose word was classified, and those at which
\* the detector was invoked.
ClassifiedAt(k) == {p \in DOMAIN word_chunks[k] : Classified(word_chunks[k][p])}
DetectedAt(k) ==
    {results[k].worker.detected[n].at : n \in DOMAIN results[k].worker.detected}

\* The earlier classifications of the word at position q of chunk k.
EarlierAt(k, q) == {p \in ClassifiedAt(k) : p < q /\ word_chunks[k][p] = word_chunks[k][q]}

\* The distinct other words classified in chunk k between positions p and q.
OthersBetween(k, p, q) ==
    {word_chunks[k][j] : j \in {n \in ClassifiedAt(k) : p < n /\ n < q}}
        \ {word_chunks[k][q]}

ShortSurvivors ==
    {raw_words[n] : n \in {m \in DOMAIN raw_words :
        /\ Len(raw_words[m]) = 2
        /\ \A x \in Range(excluded_words) : raw_words[m] # LowerText(x)}}

\* C20: no worker invokes the detector on, or caches, a word of fewer
\* than three characters; with target languages given no word of two
\* characters is in a worker's result, in the filtered list or in the
\* returned map; with no language filter every word of two characters
\* that is not excluded is in the filtered list, and in the returned map
\* when no frequency filter is given.
C20_ShortWordsSkipTheDetector ==
    /\ \A k \in DoneChunks :
         /\ \A n \in DOMAIN results[k].worker.detected :
               Len(results[k].worker.detected[n].word) >= 3
         /\ \A n \in DOMAIN results[k].worker.cache :
               Len(results[k].worker.cache[n].word) >= 3
    /\ TargetsGiven =>
         /\ \A k \in DoneChunks : \A n \in DOMAIN results[k].words :
               Len(results[k].words[n]) # 2
         /\ \A n \in DOMAIN filtered_words : Len(filtered_words[n]) # 2
         /\ \A w \in DOMAIN result.freq : Len(w) # 2
    /\ (~TargetsGiven /\ "Aggregate" \in Range(visited)) =>
         /\ ShortSurvivors \subseteq Range(filtered_words)
         /\ (result.returned /\ ~FrequencyFilterGiven) =>
               ShortSurvivors \subseteq DOMAIN result.freq

\* C20 witness: with target languages given, the workers invoked the
\* detector for longer words, some of which survived, and a word of two
\* characters that was not excluded is not in the filtered list.
C20_Witness ==
    /\ pc = "Aggregate"
    /\ TargetsGiven
    /\ ShortSurvivors # {}
    /\ filtered_words # <<>>
    /\ \E k \in DoneChunks : results[k].worker.detected # <<>>
    /\ ShortSurvivors \cap Range(filtered_words) = {}

\* The words whose count the caller's exact list names, and those whose
\* count lies within the caller's bounds.
ExactKeys ==
    {w \in DOMAIN word_frequency :
        \E n \in DOMAIN freq_args.exact_freqs.v :
            freq_args.exact_freqs.v[n] = word_frequency[w]}
RangeKeys ==
    {w \in DOMAIN word_frequency :
        /\ freq_args.min_freq.some => freq_args.min_freq.v <= word_frequency[w]
        /\ freq_args.max_freq.some => word_frequency[w] <= freq_args.max_freq.v}

\* The caller passed a bound.
BoundGiven == freq_args.min_freq.some \/ freq_args.max_freq.some

\* The caller passed an exact list that is not empty.
ExactGiven == freq_args.exact_freqs.some /\ Len(freq_args.exact_freqs.v) > 0

\* C21: one frequency-filter variant is applied per run.  With a
\* non-empty exact list the returned map is the exact filter's, whatever
\* bounds are passed with it; with no exact list, or an empty one, and no
\* bound it is the aggregated map unchanged; and otherwise (a bound, and
\* no usable exact list) it is the range filter's.
C21_OneVariantApplied ==
    ReturnedAfterAggregate =>
        result.freq =
            IF ExactGiven THEN [w \in ExactKeys |-> word_frequency[w]]
            ELSE IF BoundGiven THEN [w \in RangeKeys |-> word_frequency[w]]
            ELSE word_frequency

\* C21 witness: a non-empty exact list passed together with bounds that
\* would keep other words: the returned map is the exact filter's, it is
\* not empty, and words within the bounds are missing from it.
C21_Witness ==
    /\ ReturnedAfterAggregate
    /\ ExactGiven
    /\ BoundGiven
    /\ DOMAIN result.freq = ExactKeys
    /\ ExactKeys # {}
    /\ RangeKeys \ ExactKeys # {}
    /\ ExactKeys \ RangeKeys # {}

====
